---- MODULE Spec2Model ----
(***************************************************************************)
(* Model of flynn-test's VM runner: the instance manager and the instance  *)
(* lifecycle of the two backends (src/runner/instance.go is the UML        *)
(* backend, src/unnamed/part_000 the QEMU backend), and the privileged     *)
(* exec bridge (execReq.start / maybeExec).                                *)
(*                                                                         *)
(* Strings of the lifecycle part are sequences of tokens (a token is a     *)
(* TLA+ string), so that "+" and fmt.Sprintf are sequence concatenation    *)
(* and "" is << >>.                                                        *)
(***************************************************************************)
EXTENDS Integers, Sequences, FiniteSets, TLC

\* ------------------------------------------------------------------ bounds
\* NewInstance calls per manager (guard on the id counter).
MaxInstances == 2
\* Start/Wait/Kill calls over all instances of a behaviour.
MaxOps == 3
\* Goroutines calling NewInstance concurrently.
NumCallers == 2
\* Failures the environment (file system, tap allocator, qemu-img, fork)
\* answers with over a behaviour.
MaxFaults == 1

Callers == 1..NumCallers

VARIABLES
    backend,    \* "uml" (instance.go) or "vm" (part_000): which program runs
    nextID,     \* UMLManager.nextID / VMManager.nextID
    callers,    \* per goroutine: position inside NewInstance, locals, returns
    inst,       \* the instances NewInstance built, by numeric id
    tmp,        \* the temp directories ioutil.TempDir has created so far,
                \* by the instance whose call created them
    opCount,    \* Start/Wait/Kill calls made so far
    faults,     \* failures the environment has answered with so far
    panicked,   \* the process died of a runtime panic
    bridgeParent,  \* who spawned the process: "start" or "other"
    bridgeReq,     \* the execReq the launcher passes to start
    bridgeEnv,     \* the environment of the process whose main is running
    bridgePc,      \* where the launcher / the re-invoked process stands
    bridgeDecoded, \* maybeExec's local req
    bridgeTrace,   \* the system calls maybeExec has made, with their results
    bridgeImage,   \* what syscall.Exec replaced the process image with
    mainPc,        \* where main of runner.go stands ("off": main is not run)
    mainI,         \* the index i of main's loop over the worker instances
    mainGuest,     \* whether the build guest's sshd can ever be reached
    mainDial       \* the attempt loop of buildFlynn: clock, count, last error

lifecycleVars == <<backend, nextID, callers, inst, tmp, opCount, faults, panicked>>

bridgeVars ==
    <<bridgeParent, bridgeReq, bridgeEnv, bridgePc, bridgeDecoded, bridgeTrace, bridgeImage>>

mainVars == <<mainPc, mainI, mainGuest, mainDial>>

vars == <<lifecycleVars, bridgeVars, mainVars>>

\* ----------------------------------------------------------------- strings
Digit(n) ==
    CASE n = 0 -> "0" [] n = 1 -> "1" [] n = 2 -> "2" [] n = 3 -> "3"
      [] n = 4 -> "4" [] n = 5 -> "5" [] n = 6 -> "6" [] n = 7 -> "7"
      [] n = 8 -> "8" [] n = 9 -> "9"

RECURSIVE Itoa(_)
\* the %d verb of fmt.Sprintf for a non-negative integer
Itoa(n) ==
    IF n < 10 THEN <<Digit(n)>> ELSE Itoa(n \div 10) \o <<Digit(n % 10)>>

EmptyString == << >>

\* --------------------------------------------------------------- the inputs
UMLDrive(fs, cow, tempCOW) ==
    [key |-> EmptyString, FS |-> fs, COW |-> cow, TempCOW |-> tempCOW]

VMDrive(key, fs, tempCOW) ==
    [key |-> key, FS |-> fs, COW |-> EmptyString, TempCOW |-> tempCOW]

\* Two configs per backend: the one main passes for a worker instance
\* (runner.go:68-77, 201-209), and one that leaves Path/Kernel, Memory and the
\* users unset, passes a writer and has drives without TempCOW.  Path is
\* UMLConfig.Path for the UML backend and VMConfig.Kernel for the QEMU
\* backend; Out is "nil" or "writer".
UMLConfigs ==
    { [Path |-> <<"linux">>, User |-> 1000, Group |-> 1000, Memory |-> <<"512MB">>,
       Drives |-> << UMLDrive(<<"rootfs.img">>, EmptyString, TRUE),
                     UMLDrive(<<"docker.img">>, EmptyString, TRUE) >>,
       Args |-> << >>, Out |-> "nil"],
      [Path |-> EmptyString, User |-> 0, Group |-> 0, Memory |-> EmptyString,
       Drives |-> << UMLDrive(<<"rootfs.img">>, <<"my.cow">>, FALSE),
                     UMLDrive(<<"docker.img">>, EmptyString, FALSE) >>,
       Args |-> << >>, Out |-> "writer"] }

VMConfigs ==
    { [Path |-> EmptyString, User |-> 1000, Group |-> 1000, Memory |-> <<"512MB">>,
       Drives |-> << VMDrive(<<"hda">>, <<"rootfs.img">>, TRUE),
                     VMDrive(<<"hdb">>, <<"docker.img">>, TRUE) >>,
       Args |-> << >>, Out |-> "nil"],
      [Path |-> <<"vmlinuz">>, User |-> 0, Group |-> 0, Memory |-> EmptyString,
       Drives |-> << VMDrive(<<"hda">>, <<"rootfs.img">>, FALSE) >>,
       Args |-> << >>, Out |-> "writer"] }

Configs == IF backend = "uml" THEN UMLConfigs ELSE VMConfigs

\* ------------------------------------------------------- the temp directory
\* ioutil.TempDir("", ""): a directory whose name did not exist before.  The
\* n-th directory created by the calls on instance id is named /tmp/<id>-<n>.
TempDirName(id, n) == <<"/tmp/">> \o id \o <<"-">> \o Itoa(n)

\* One entry of tmp: the directory, whether it still exists, the instance
\* whose Start created it, and how often os.RemoveAll was called on it and
\* how often such a call found it and deleted it.
NewDir(path, owner) ==
    [path |-> path, exists |-> TRUE, owner |-> owner, rmCalls |-> 0, removed |-> 0]

\* os.RemoveAll(path): deletes the tree, and is a no-op on a missing path.
RemoveAll(t, path) ==
    [n \in DOMAIN t |->
        IF t[n].path = path
        THEN [t[n] EXCEPT !.exists = FALSE,
                          !.rmCalls = @ + 1,
                          !.removed = @ + (IF t[n].exists THEN 1 ELSE 0)]
        ELSE t[n]]

RECURSIVE RemoveEach(_, _)
\* for _, f := range u.tempFiles { os.RemoveAll(f) }
RemoveEach(t, files) ==
    IF files = << >> THEN t
    ELSE RemoveEach(RemoveAll(t, Head(files)), Tail(files))

\* ------------------------------------------------------------ the instance
NoReq ==
    [Uid |-> 0, Gid |-> 0, Path |-> EmptyString, Argv |-> << >>, Env |-> << >>,
     Dir |-> EmptyString]

\* u.cmd before any Start: a nil *exec.Cmd.
NilCmd == [isNil |-> TRUE, Process |-> "nil", req |-> NoReq]

\* (*Tap).Close as cleanup invokes it: every invocation is counted.
TapClose(tap) == [tap EXCEPT !.closeCalls = @ + 1]

\* func (u *uml) cleanup() / func (u *vm) cleanup()
cleanup(u, t) ==
    [u   |-> [u EXCEPT !.tap = TapClose(@), !.tempFiles = << >>],
     tmp |-> RemoveEach(t, u.tempFiles)]

WriteInterfaceConfigOutcomes ==
    {"ok", "tempdir_fail", "chmod_fail", "create_fail", "write_fail"}

\* func (u *uml) writeInterfaceConfig() error, and the same method of vm
\* (hostFS is vm's netFS).  o is what the file system and the tap answer.
writeInterfaceConfig(u, t, o) ==
    IF o = "tempdir_fail"
    THEN [u |-> u, tmp |-> t, err |-> TRUE]
    ELSE LET dir == TempDirName(u.ID, Len(t) + 1)
             t1  == Append(t, NewDir(dir, u.ID))
             u1  == [u EXCEPT !.tempFiles = Append(@, dir), !.hostFS = dir]
         IN  IF o \in {"chmod_fail", "create_fail"}
             THEN [u |-> u1, tmp |-> RemoveAll(t1, dir), err |-> TRUE]
             ELSE [u |-> u1, tmp |-> t1, err |-> (o = "write_fail")]

umlTempCOWOutcomes == {"ok", "tempdir_fail", "chown_fail"}

\* uml.tempCOW returning filepath.Join(os.TempDir(), "fs.cow1"): the overlay
\* next to the directory it created instead of inside it.
umlTempCOWSharedFile(u, t, o) ==
    IF o = "tempdir_fail"
    THEN [u |-> u, tmp |-> t, path |-> EmptyString, err |-> TRUE, tool |-> FALSE]
    ELSE IF o = "chown_fail"
    THEN [u |-> u, tmp |-> Append(t, NewDir(TempDirName(u.ID, Len(t) + 1), u.ID)),
          path |-> EmptyString, err |-> TRUE, tool |-> FALSE]
    ELSE [u |-> [u EXCEPT !.tempFiles = Append(@, TempDirName(u.ID, Len(t) + 1))],
          tmp |-> Append(t, NewDir(TempDirName(u.ID, Len(t) + 1), u.ID)),
          path |-> <<"/tmp/", "/", "fs.cow1">>, err |-> FALSE, tool |-> FALSE]

\* func (u *uml) tempCOW() (string, error)
umlTempCOW(u, t, o) ==
    IF o = "tempdir_fail"
    THEN [u |-> u, tmp |-> t, path |-> EmptyString, err |-> TRUE, tool |-> FALSE]
    ELSE LET dir == TempDirName(u.ID, Len(t) + 1)
             t1  == Append(t, NewDir(dir, u.ID))
         IN  IF o = "chown_fail"
             THEN [u |-> u, tmp |-> t1, path |-> EmptyString, err |-> TRUE,
                   tool |-> FALSE]
             ELSE [u |-> [u EXCEPT !.tempFiles = Append(@, dir)], tmp |-> t1,
                   path |-> dir \o <<"/", "fs.cow1">>, err |-> FALSE,
                   tool |-> FALSE]

vmTempCOWOutcomes ==
    {"ok", "tempdir_fail", "chown_fail", "qemuimg_fail", "chownfile_fail"}

\* vm.tempCOW with qemu-img run before the ownership of the directory is
\* changed.
vmTempCOWToolFirst(u, t, image, o) ==
    IF o = "tempdir_fail"
    THEN [u |-> u, tmp |-> t, path |-> EmptyString, err |-> TRUE, tool |-> FALSE]
    ELSE [u |-> [u EXCEPT !.tempFiles = Append(@, TempDirName(u.ID, Len(t) + 1))],
          tmp |-> Append(t, NewDir(TempDirName(u.ID, Len(t) + 1), u.ID)),
          path |-> IF o = "ok"
                   THEN TempDirName(u.ID, Len(t) + 1) \o <<"/", "fs.img">>
                   ELSE EmptyString,
          err |-> (o # "ok"), tool |-> TRUE]

\* func (u *vm) tempCOW(image string) (string, error); tool says whether
\* qemu-img was run.
vmTempCOW(u, t, image, o) ==
    IF o = "tempdir_fail"
    THEN [u |-> u, tmp |-> t, path |-> EmptyString, err |-> TRUE, tool |-> FALSE]
    ELSE LET dir == TempDirName(u.ID, Len(t) + 1)
             t1  == Append(t, NewDir(dir, u.ID))
             u1  == [u EXCEPT !.tempFiles = Append(@, dir)]
         IN  IF o = "chown_fail"
             THEN [u |-> u1, tmp |-> t1, path |-> EmptyString, err |-> TRUE,
                   tool |-> FALSE]
             ELSE IF o \in {"qemuimg_fail", "chownfile_fail"}
             THEN [u |-> u1, tmp |-> t1, path |-> EmptyString, err |-> TRUE,
                   tool |-> TRUE]
             ELSE [u |-> u1, tmp |-> t1, path |-> dir \o <<"/", "fs.img">>,
                   err |-> FALSE, tool |-> TRUE]

\* a drive that names its files: no tempCOW call, path is its COW (uml) or
\* its FS (vm)
NoTempCOW(u, t, path) ==
    [u |-> u, tmp |-> t, path |-> path, err |-> FALSE, tool |-> FALSE]

\* what one tempCOW call of the drive loop did, r being what it returned and
\* out what the file system and qemu-img answered: the directory it created
\* (the last of r.tmp; none when ioutil.TempDir failed), the drive's base
\* image, the path and the error it returned, and whether qemu-img was run
TempCOWEntry(r, d, out) ==
    [out |-> out, base |-> d.FS, path |-> r.path, err |-> r.err, tool |-> r.tool,
     dir |-> IF out = "tempdir_fail" THEN EmptyString ELSE r.tmp[Len(r.tmp)].path]

\* the instance after the pass of the drive loop over drive d, with the
\* tempCOW call of the pass, if it made one, in the instance's record of them
TempCOWCalled(r, d, out) ==
    IF d.TempCOW THEN [r.u EXCEPT !.cows = Append(@, TempCOWEntry(r, d, out))]
    ELSE r.u

\* the "ubd%d=..." argument of drive d of index i, r.path being its COW file
umlDriveArg(d, i, path) ==
    IF path # EmptyString
    THEN <<"ubd">> \o Itoa(i) \o <<"=">> \o path \o <<",">> \o d.FS
    ELSE <<"ubd">> \o Itoa(i) \o <<"=">> \o d.FS

RECURSIVE umlDrives(_, _, _, _, _)
RECURSIVE umlDrive(_, _, _, _)
\* one pass of the loop over u.Drives of uml.Start (instance.go:134-147) on
\* the drive of index i, r being what tempCOW returned, and the passes after
umlDrive(r, drives, i, outs) ==
    IF r.err THEN [u |-> TempCOWCalled(r, Head(drives), Head(outs)), tmp |-> r.tmp,
                   err |-> TRUE]
    ELSE umlDrives([TempCOWCalled(r, Head(drives), Head(outs))
                       EXCEPT !.Args = Append(@, umlDriveArg(Head(drives), i, r.path))],
                   r.tmp, Tail(drives), i + 1, Tail(outs))

\* the loop over u.Drives of uml.Start (instance.go:134-147), from the drive
\* of index i on; outs[k] is the answer to the k-th remaining drive's tempCOW
umlDrives(u, t, drives, i, outs) ==
    IF drives = << >> THEN [u |-> u, tmp |-> t, err |-> FALSE]
    ELSE umlDrive(IF Head(drives).TempCOW THEN umlTempCOW(u, t, Head(outs))
                  ELSE NoTempCOW(u, t, Head(drives).COW),
                  drives, i, outs)

RECURSIVE vmDrives(_, _, _, _)
RECURSIVE vmDrive(_, _, _)
\* one pass of the loop over u.Drives of vm.Start (part_000:132-142), r being
\* what tempCOW returned, and the passes after
vmDrive(r, drives, outs) ==
    IF r.err THEN [u |-> TempCOWCalled(r, Head(drives), Head(outs)), tmp |-> r.tmp,
                   err |-> TRUE]
    ELSE vmDrives([TempCOWCalled(r, Head(drives), Head(outs))
                      EXCEPT !.Args = @ \o << <<"-">> \o Head(drives).key, r.path >>],
                  r.tmp, Tail(drives), Tail(outs))

\* the loop over u.Drives of vm.Start (part_000:132-142); drives is the map
\* in the order the range statement happens to visit it
vmDrives(u, t, drives, outs) ==
    IF drives = << >> THEN [u |-> u, tmp |-> t, err |-> FALSE]
    ELSE vmDrive(IF Head(drives).TempCOW
                 THEN vmTempCOW(u, t, Head(drives).FS, Head(outs))
                 ELSE NoTempCOW(u, t, Head(drives).FS),
                 drives, outs)

StartOutcomes == {"ok", "start_fail"}

\* func (r *execReq) start(out io.Writer) (*exec.Cmd, error), seen from the
\* launcher: the command and whether cmd.Start spawned the re-invoked
\* executable.  (Encoding this struct into a bytes.Buffer cannot fail.)
start(r, o) ==
    [cmd |-> [isNil |-> FALSE,
              Process |-> IF o = "ok" THEN "running" ELSE "nil",
              req |-> r],
     err |-> (o # "ok")]

\* Start, after a failure: u.cleanup() has run and the error is returned
StartFailed(c, w) ==
    [u |-> c.u, tmp |-> c.tmp, err |-> TRUE, wicErr |-> w.err, spawned |-> FALSE]

\* Start, from u.cmd, err = (&execReq{...}).start(u.Out) on: s is what start
\* returned, d the instance and the directories after the drive loop
StartSpawned(w, d, s) ==
    IF s.err
    THEN StartFailed(cleanup([d.u EXCEPT !.cmd = s.cmd], d.tmp), w)
    ELSE [u |-> [d.u EXCEPT !.cmd = s.cmd], tmp |-> d.tmp, err |-> FALSE,
          wicErr |-> w.err, spawned |-> TRUE]

\* if u.Memory != "" { u.Args = append(u.Args, ...) }
StartMemory(u, args) ==
    IF u.Memory # EmptyString THEN [u EXCEPT !.Args = @ \o args] ELSE u

\* uml.Start, lines 122-133: the arguments every guest gets; w is what
\* writeInterfaceConfig left (its error is dropped)
umlStartArgs(u, w) ==
    StartMemory([w.u EXCEPT !.Args = @ \o << <<"umid=">> \o u.ID,
                                            <<"con0=fd:0,fd:1">>,
                                            <<"con=pts">>,
                                            <<"rw">>,
                                            <<"eth0=tuntap,">> \o u.tap.Name,
                                            <<"hostfs=">> \o w.u.hostFS >>],
                << <<"mem=">> \o u.Memory >>)

\* uml.Start, lines 137-158: the outcome of the drive loop, then the spawn
umlStartSpawn(w, d, o) ==
    IF d.err
    THEN StartFailed(cleanup(d.u, d.tmp), w)
    ELSE StartSpawned(w, d, start([Uid |-> d.u.User, Gid |-> d.u.Group,
                                   Path |-> d.u.Path,
                                   Argv |-> << <<"linux">> >> \o d.u.Args,
                                   Env |-> << <<"HOME=", "$HOME">> >>,
                                   Dir |-> EmptyString], o.spawn))

\* uml.Start, from the drive loop on
umlStartDrives(u2, w, o) ==
    umlStartSpawn(w, umlDrives(u2, w.tmp, u2.Drives, 0, o.drives), o)

\* func (u *uml) Start() error
umlStart(u, t, o) ==
    umlStartDrives(umlStartArgs(u, writeInterfaceConfig(u, t, o.wic)),
                   writeInterfaceConfig(u, t, o.wic), o)

\* vm.Start, lines 120-131
vmStartArgs(u, w) ==
    StartMemory([w.u EXCEPT !.Args = @ \o
                   << <<"-kernel">>, u.Path,
                      <<"-append">>, <<"\"root=/dev/sda\"">>,
                      <<"-net">>, <<"nic">>,
                      <<"-net">>, <<"tap,ifname=">> \o u.tap.Name
                                      \o <<",script=no,downscript=no">>,
                      <<"-virtfs">>, <<"fsdriver=local,path=">> \o w.u.hostFS
                          \o <<",security_model=passthrough,readonly,mount_tag=netfs">>,
                      <<"-nographic">> >>],
                << <<"-m">>, u.Memory >>)

\* vm.Start, lines 135-153: the outcome of the drive loop, then the spawn
vmStartSpawn(w, d, o) ==
    IF d.err
    THEN StartFailed(cleanup(d.u, d.tmp), w)
    ELSE StartSpawned(w, d, start([Uid |-> d.u.User, Gid |-> d.u.Group,
                                   Path |-> <<"/usr/bin/qemu-system-x86_64">>,
                                   Argv |-> << <<"/usr/bin/qemu-system-x86_64">> >>
                                               \o d.u.Args,
                                   Env |-> << <<"HOME=", "$HOME">> >>,
                                   Dir |-> EmptyString], o.spawn))

\* vm.Start, from the drive loop on; o.order is the map iteration order
vmStartDrives(u2, w, o) ==
    vmStartSpawn(w, vmDrives(u2, w.tmp, o.order, o.drives), o)

\* func (u *vm) Start() error
vmStart(u, t, o) ==
    vmStartDrives(vmStartArgs(u, writeInterfaceConfig(u, t, o.wic)),
                  writeInterfaceConfig(u, t, o.wic), o)

Start(u, t, o) == IF backend = "uml" THEN umlStart(u, t, o) ELSE vmStart(u, t, o)

WaitOutcomes == {"exit0", "exiterr"}

\* func (u *uml) Wait() error / func (u *vm) Wait() error: u.cmd.Wait() runs,
\* then the deferred cleanup.  A nil u.cmd is a nil pointer dereference: the
\* deferred cleanup still runs and the panic goes on.  o is how the
\* hypervisor exits.
Wait(u, t, o) ==
    LET p  == u.cmd.Process
        u1 == IF u.cmd.isNil \/ p = "nil" THEN u
              ELSE [u EXCEPT !.cmd.Process = "finished"]
        e  == CASE u.cmd.isNil    -> FALSE
                [] p = "nil"      -> TRUE           \* exec: not started
                [] p = "running"  -> (o = "exiterr")
                [] p = "killed"   -> TRUE           \* signal: killed
                [] p = "finished" -> TRUE           \* Wait was already called
        c  == cleanup(u1, t)
    IN  [u |-> c.u, tmp |-> c.tmp, err |-> e, panic |-> u.cmd.isNil]

\* func (u *uml) Kill() error / func (u *vm) Kill() error: u.cmd.Process.Kill()
\* runs, then the deferred cleanup.  A nil u.cmd, and a nil u.cmd.Process
\* (cmd.Start failed), are nil pointer dereferences.
Kill(u, t) ==
    LET p  == u.cmd.Process
        pn == u.cmd.isNil \/ p = "nil"
        u1 == IF ~pn /\ p = "running" THEN [u EXCEPT !.cmd.Process = "killed"]
              ELSE u
        e  == ~pn /\ p = "finished"                 \* process already finished
        c  == cleanup(u1, t)
    IN  [u |-> c.u, tmp |-> c.tmp, err |-> e, panic |-> pn]

\* --------------------------------------------------------------- the manager
\* atomic.AddUint64(addr, delta): the new value.  (The guard of NewInstanceAdd
\* keeps the counter far below 2^64.)
AtomicAddUint64(v, delta) == v + delta

NoConfig ==
    [Path |-> EmptyString, User |-> 0, Group |-> 0, Memory |-> EmptyString,
     Drives |-> << >>, Args |-> << >>, Out |-> "nil"]

\* (*TapManager).NewTap(uid, gid): a tap with its interface name, or an error
\* and no tap.
NewTap(id, ok) ==
    [isNil |-> ~ok,
     Name |-> IF ok THEN <<"flynntap">> \o Itoa(id) ELSE EmptyString,
     closeCalls |-> 0]

\* NewInstance with line 50 as a plain load followed by a plain store
\* (id := u.nextID; u.nextID = id + 1) instead of the atomic add.
NewInstanceAddRacy(g) ==
    /\ ~panicked
    /\ \/ /\ callers[g].pc = "idle"
          /\ nextID < MaxInstances
          /\ \E c \in Configs :
               callers' = [callers EXCEPT ![g].pc = "load", ![g].id = nextID,
                                         ![g].c = c]
          /\ UNCHANGED nextID
       \/ /\ callers[g].pc = "load"
          /\ nextID' = callers[g].id + 1
          /\ callers' = [callers EXCEPT ![g].pc = "add"]
    /\ UNCHANGED <<mainVars, bridgeVars, backend, inst, tmp, opCount, faults, panicked>>

\* NewInstance, line 50: id := atomic.AddUint64(&u.nextID, 1) - 1, one atomic
\* step of goroutine g, with the config the caller passes
NewInstanceAdd(g) ==
    /\ ~panicked
    /\ callers[g].pc = "idle"
    /\ nextID < MaxInstances
    /\ \E c \in Configs :
         LET new == AtomicAddUint64(nextID, 1)
         IN  /\ nextID' = new
             /\ callers' = [callers EXCEPT ![g].pc = "add", ![g].id = new - 1,
                                           ![g].c = c]
    /\ UNCHANGED <<mainVars, bridgeVars, backend, inst, tmp, opCount, faults, panicked>>

NewInstanceOutcomes == {"ok", "log_fail", "tap_fail"}

\* NewInstance, lines 51-66: the instance built from config c with id id for
\* goroutine g, o being what creating the log file and the tap answered
NewInstanceRecord(c, id, o, g) ==
    [ID |-> <<"flynn">> \o Itoa(id),
     Path |-> IF c.Path = EmptyString
              THEN (IF backend = "uml" THEN <<"linux">> ELSE <<"vmlinuz">>)
              ELSE c.Path,
     User |-> c.User, Group |-> c.Group, Memory |-> c.Memory,
     Drives |-> c.Drives, Args |-> c.Args,
     Out |-> IF c.Out = "nil" THEN "logfile" ELSE c.Out,
     hostFS |-> EmptyString,
     tap |-> NewTap(id, o = "ok"),
     cmd |-> NilCmd,
     tempFiles |-> << >>,
     err |-> (o # "ok"),
     owner |-> g,
     hist |-> << >>,
     cows |-> << >>]

\* NewInstance, lines 51-67: build the instance, default the path, create the
\* log file when c.Out is nil, allocate the tap, return (inst, err)
NewInstanceFinish(g) ==
    /\ ~panicked
    /\ callers[g].pc = "add"
    /\ \E o \in NewInstanceOutcomes :
         /\ (o = "log_fail") => (callers[g].c.Out = "nil")
         /\ (o # "ok") => faults < MaxFaults
         /\ faults' = faults + (IF o = "ok" THEN 0 ELSE 1)
         /\ LET c  == callers[g].c
                id == callers[g].id
                u  == NewInstanceRecord(c, id, o, g)
            IN  /\ inst' = IF o = "log_fail" THEN inst ELSE (id :> u) @@ inst
                /\ tmp' = IF o = "log_fail" THEN tmp ELSE (id :> << >>) @@ tmp
                /\ callers' = [callers EXCEPT
                      ![g].pc = "idle",
                      ![g].rets = Append(@, [id |-> id,
                                             inst |-> (o # "log_fail"),
                                             err |-> (o # "ok")])]
    /\ UNCHANGED <<mainVars, bridgeVars, backend, nextID, opCount, panicked>>

\* ------------------------------------------------- calls on an instance
\* The instances a goroutine goes on to use: NewInstance returned them to it
\* without an error (main exits on an error, runner.go:53-55, 78-80), and it
\* is not inside another call.
Usable(i) ==
    /\ i \in DOMAIN inst
    /\ ~inst[i].err
    /\ callers[inst[i].owner].pc = "idle"

\* the orders in which a range statement can visit the drives: the slice
\* order for UMLConfig.Drives, any order for the map VMConfig.Drives
Orders(drives) ==
    IF backend = "uml" THEN {drives}
    ELSE LET n == Len(drives)
         IN  { [k \in 1..n |-> drives[q[k]]] :
                 q \in { f \in [1..n -> 1..n] :
                           \A a, b \in 1..n : a # b => f[a] # f[b] } }

TempCOWOutcomes == IF backend = "uml" THEN umlTempCOWOutcomes ELSE vmTempCOWOutcomes

\* what the file system and qemu-img answer to each drive of the loop; the
\* loop ends at the first failure
DriveOutcomes(order) ==
    { outs \in [1..Len(order) -> vmTempCOWOutcomes] :
        /\ \A k \in 1..Len(order) :
             outs[k] \in (IF order[k].TempCOW THEN TempCOWOutcomes ELSE {"ok"})
        /\ \A k, j \in 1..Len(order) : (outs[k] # "ok" /\ j > k) => outs[j] = "ok" }

StartInputs(u) ==
    { o \in [wic : WriteInterfaceConfigOutcomes,
             order : Orders(u.Drives),
             drives : UNION { DriveOutcomes(ord) : ord \in Orders(u.Drives) },
             spawn : StartOutcomes] :
        /\ o.drives \in DriveOutcomes(o.order)
        /\ (\E k \in 1..Len(o.drives) : o.drives[k] # "ok") => o.spawn = "ok" }

\* the failures among the answers o
StartFaults(o) ==
    (IF o.wic = "ok" THEN 0 ELSE 1)
    + (IF \E k \in 1..Len(o.drives) : o.drives[k] # "ok" THEN 1 ELSE 0)
    + (IF o.spawn = "ok" THEN 0 ELSE 1)

\* the paths of the directories created after the first n of tmp that exist
Leftover(t, n) == { t[k].path : k \in { j \in (n + 1)..Len(t) : t[j].exists } }

\* what a call of Start did to instance u0 with directories t0, r being what
\* it returned: the entry of the instance's history
StartHist(u0, t0, r) ==
    [op |-> "Start", err |-> r.err, panic |-> FALSE,
     wicErr |-> r.wicErr, spawned |-> r.spawned,
     closes |-> r.u.tap.closeCalls - u0.tap.closeCalls,
     released |-> r.u.tap.closeCalls > 0,
     made |-> Len(r.tmp) - Len(t0),
     leaked |-> Leftover(r.tmp, Len(t0))]

\* the instance after the call, with the call in its history
Called(r, h) == [r.u EXCEPT !.hist = Append(@, h)]

CallStart(i) ==
    /\ ~panicked
    /\ Usable(i)
    /\ opCount < MaxOps
    /\ \E o \in StartInputs(inst[i]) :
         /\ faults + StartFaults(o) <= MaxFaults
         /\ faults' = faults + StartFaults(o)
         /\ inst' = [inst EXCEPT ![i] =
                        Called(Start(inst[i], tmp[i], o),
                               StartHist(inst[i], tmp[i], Start(inst[i], tmp[i], o)))]
         /\ tmp' = [tmp EXCEPT ![i] = Start(inst[i], tmp[i], o).tmp]
    /\ opCount' = opCount + 1
    /\ UNCHANGED <<mainVars, bridgeVars, backend, nextID, callers, panicked>>

CallWait(i) ==
    /\ ~panicked
    /\ Usable(i)
    /\ opCount < MaxOps
    /\ \E o \in WaitOutcomes :
         LET r == Wait(inst[i], tmp[i], o)
             h == [op |-> "Wait", err |-> r.err, panic |-> r.panic,
                   wicErr |-> FALSE, spawned |-> FALSE,
                   closes |-> r.u.tap.closeCalls - inst[i].tap.closeCalls,
                   released |-> r.u.tap.closeCalls > 0,
                   made |-> 0, leaked |-> {}]
         IN  /\ inst' = [inst EXCEPT ![i] = [r.u EXCEPT !.hist = Append(@, h)]]
             /\ tmp' = [tmp EXCEPT ![i] = r.tmp]
             /\ panicked' = r.panic
    /\ opCount' = opCount + 1
    /\ UNCHANGED <<mainVars, bridgeVars, backend, nextID, callers, faults>>

CallKill(i) ==
    /\ ~panicked
    /\ Usable(i)
    /\ opCount < MaxOps
    /\ LET r == Kill(inst[i], tmp[i])
           h == [op |-> "Kill", err |-> r.err, panic |-> r.panic,
                 wicErr |-> FALSE, spawned |-> FALSE,
                 closes |-> r.u.tap.closeCalls - inst[i].tap.closeCalls,
                 released |-> r.u.tap.closeCalls > 0,
                 made |-> 0, leaked |-> {}]
       IN  /\ inst' = [inst EXCEPT ![i] = [r.u EXCEPT !.hist = Append(@, h)]]
           /\ tmp' = [tmp EXCEPT ![i] = r.tmp]
           /\ panicked' = r.panic
    /\ opCount' = opCount + 1
    /\ UNCHANGED <<mainVars, bridgeVars, backend, nextID, callers, faults>>

LifecycleInit ==
    /\ backend \in {"uml", "vm"}
    /\ nextID = 0
    /\ callers = [g \in Callers |-> [pc |-> "idle", id |-> 0, c |-> NoConfig,
                                     rets |-> << >>]]
    /\ inst = << >>
    /\ tmp = << >>
    /\ opCount = 0
    /\ faults = 0
    /\ panicked = FALSE

\* ============================================================ exec bridge
\* Strings of the bridge part are sequences of bytes, a slice is a record of
\* its nil-ness and its elements, and the text of the environment variable
\* is a sequence of one-character strings.

Slice(elems) == [nil |-> FALSE, elems |-> elems]
NilSlice == [nil |-> TRUE, elems |-> << >>]

\* var req execReq: the zero value
ZeroReq ==
    [Uid |-> 0, Gid |-> 0, Path |-> << >>, Argv |-> NilSlice, Env |-> NilSlice,
     Dir |-> << >>]

\* ---- encoding/gob, for the struct execReq (instance.go:194-201)
RECURSIVE BigEndian(_)
\* the bytes of x > 0, most significant first, without leading zeros
BigEndian(x) == IF x = 0 THEN << >> ELSE BigEndian(x \div 256) \o <<x % 256>>

\* an unsigned integer: one byte below 128, else the negated byte count and
\* the big-endian bytes
GobEncodeUint(x) ==
    IF x < 128 THEN <<x>>
    ELSE LET bs == BigEndian(x) IN <<256 - Len(bs)>> \o bs

\* a signed integer: the sign goes to bit 0, the value (complemented when
\* negative) to the bits above
GobEncodeInt(i) ==
    GobEncodeUint(IF i < 0 THEN ((-i) - 1) * 2 + 1 ELSE i * 2)

\* a string: its length and its bytes
GobEncodeString(str) == GobEncodeUint(Len(str)) \o str

RECURSIVE GobEncodeElems(_)
GobEncodeElems(elems) ==
    IF elems = << >> THEN << >>
    ELSE GobEncodeString(Head(elems)) \o GobEncodeElems(Tail(elems))

\* a []string: the element count and every element
GobEncodeStrings(sl) == GobEncodeUint(Len(sl.elems)) \o GobEncodeElems(sl.elems)

\* The fields of execReq in declaration order, each with its number, whether
\* it holds the zero value (an empty slice counts as zero) and its encoding.
GobFields(r) ==
    << [num |-> 0, zero |-> (r.Uid = 0),             bytes |-> GobEncodeInt(r.Uid)],
       [num |-> 1, zero |-> (r.Gid = 0),             bytes |-> GobEncodeInt(r.Gid)],
       [num |-> 2, zero |-> (r.Path = << >>),        bytes |-> GobEncodeString(r.Path)],
       [num |-> 3, zero |-> (r.Argv.elems = << >>),  bytes |-> GobEncodeStrings(r.Argv)],
       [num |-> 4, zero |-> (r.Env.elems = << >>),   bytes |-> GobEncodeStrings(r.Env)],
       [num |-> 5, zero |-> (r.Dir = << >>),         bytes |-> GobEncodeString(r.Dir)] >>

RECURSIVE GobEncodeFields(_, _)
\* a struct: for every field that is not zero, the distance from the field
\* sent before it (from -1 at first) and the value; then a zero byte
GobEncodeFields(fields, prev) ==
    IF fields = << >> THEN <<0>>
    ELSE LET f == Head(fields)
         IN  IF f.zero THEN GobEncodeFields(Tail(fields), prev)
             ELSE GobEncodeUint(f.num - prev) \o f.bytes
                      \o GobEncodeFields(Tail(fields), f.num)

\* The id gob gives the first user-defined type of a stream.
GobTypeId == 65

\* The messages that describe the type execReq.  They do not depend on the
\* value; two bytes stand for them.
GobTypeDescriptor == <<1, 255>>

\* gob.NewEncoder(w).Encode(r): the type descriptor, then one message: its
\* byte count, the type id, the struct
GobEncode(r) ==
    LET body == GobEncodeInt(GobTypeId) \o GobEncodeFields(GobFields(r), -1)
    IN  GobTypeDescriptor \o GobEncodeUint(Len(body)) \o body

\* ---- decoding: every step yields ok, the value and the next position
RECURSIVE FromBigEndian(_, _)
FromBigEndian(bs, acc) ==
    IF bs = << >> THEN acc ELSE FromBigEndian(Tail(bs), acc * 256 + Head(bs))

GobDecodeUint(b, p) ==
    IF p > Len(b) THEN [ok |-> FALSE, val |-> 0, pos |-> p]
    ELSE IF b[p] < 128 THEN [ok |-> TRUE, val |-> b[p], pos |-> p + 1]
    ELSE LET n == 256 - b[p]
         IN  IF n > 8 \/ p + n > Len(b)
             THEN [ok |-> FALSE, val |-> 0, pos |-> p]
             ELSE [ok |-> TRUE, val |-> FromBigEndian(SubSeq(b, p + 1, p + n), 0),
                   pos |-> p + n + 1]

GobDecodeInt(b, p) ==
    LET x == GobDecodeUint(b, p)
    IN  [x EXCEPT !.val = IF x.val % 2 = 1 THEN (-(x.val \div 2)) - 1
                          ELSE x.val \div 2]

GobDecodeString(b, p) ==
    LET n == GobDecodeUint(b, p)
    IN  IF ~n.ok \/ n.pos + n.val - 1 > Len(b)
        THEN [ok |-> FALSE, val |-> << >>, pos |-> p]
        ELSE [ok |-> TRUE, val |-> SubSeq(b, n.pos, n.pos + n.val - 1),
              pos |-> n.pos + n.val]

RECURSIVE GobDecodeElems(_, _, _, _)
GobDecodeElems(b, p, count, acc) ==
    IF count = 0 THEN [ok |-> TRUE, val |-> Slice(acc), pos |-> p]
    ELSE LET e == GobDecodeString(b, p)
         IN  IF ~e.ok THEN [ok |-> FALSE, val |-> NilSlice, pos |-> p]
             ELSE GobDecodeElems(b, e.pos, count - 1, Append(acc, e.val))

GobDecodeStrings(b, p) ==
    LET n == GobDecodeUint(b, p)
    IN  IF ~n.ok THEN [ok |-> FALSE, val |-> NilSlice, pos |-> p]
        ELSE GobDecodeElems(b, n.pos, n.val, << >>)

RECURSIVE GobDecodeFields(_, _, _, _)
\* the struct, decoded into r: a field that was not sent keeps r's value
GobDecodeFields(b, p, prev, r) ==
    LET d == GobDecodeUint(b, p)
    IN  IF ~d.ok THEN [ok |-> FALSE, val |-> r, pos |-> p]
        ELSE IF d.val = 0 THEN [ok |-> TRUE, val |-> r, pos |-> d.pos]
        ELSE LET num == prev + d.val
                 v   == CASE num \in {0, 1} -> GobDecodeInt(b, d.pos)
                          [] num \in {2, 5} -> GobDecodeString(b, d.pos)
                          [] num \in {3, 4} -> GobDecodeStrings(b, d.pos)
                          [] OTHER -> [ok |-> FALSE, val |-> 0, pos |-> p]
             IN  IF ~v.ok THEN [ok |-> FALSE, val |-> r, pos |-> p]
                 ELSE GobDecodeFields(b, v.pos, num,
                        CASE num = 0 -> [r EXCEPT !.Uid = v.val]
                          [] num = 1 -> [r EXCEPT !.Gid = v.val]
                          [] num = 2 -> [r EXCEPT !.Path = v.val]
                          [] num = 3 -> [r EXCEPT !.Argv = v.val]
                          [] num = 4 -> [r EXCEPT !.Env = v.val]
                          [] num = 5 -> [r EXCEPT !.Dir = v.val])

\* gob.NewDecoder(rd).Decode(&req) on the bytes b, req being the zero value
GobDecode(b) ==
    LET k == Len(GobTypeDescriptor)
    IN  IF Len(b) < k \/ SubSeq(b, 1, k) # GobTypeDescriptor
        THEN [ok |-> FALSE, val |-> ZeroReq]
        ELSE LET n == GobDecodeUint(b, k + 1)
             IN  IF ~n.ok \/ n.pos + n.val - 1 > Len(b)
                 THEN [ok |-> FALSE, val |-> ZeroReq]
                 ELSE LET msg == SubSeq(b, n.pos, n.pos + n.val - 1)
                          id  == GobDecodeInt(msg, 1)
                      IN  IF ~id.ok \/ id.val # GobTypeId
                          THEN [ok |-> FALSE, val |-> ZeroReq]
                          ELSE LET f == GobDecodeFields(msg, id.pos, -1, ZeroReq)
                               IN  [ok |-> f.ok /\ f.pos = Len(msg) + 1,
                                    val |-> f.val]

\* ---- encoding/base64, StdEncoding
Base64Alphabet ==
    << "A", "B", "C", "D", "E", "F", "G", "H", "I", "J", "K", "L", "M", "N", "O", "P",
       "Q", "R", "S", "T", "U", "V", "W", "X", "Y", "Z", "a", "b", "c", "d", "e", "f",
       "g", "h", "i", "j", "k", "l", "m", "n", "o", "p", "q", "r", "s", "t", "u", "v",
       "w", "x", "y", "z", "0", "1", "2", "3", "4", "5", "6", "7", "8", "9", "+", "/" >>

Base64Char(v) == Base64Alphabet[v + 1]

RECURSIVE Base64Encode(_)
\* three bytes give four characters; one or two bytes left over give two or
\* three characters and "=" padding
Base64Encode(b) ==
    IF Len(b) = 0 THEN << >>
    ELSE IF Len(b) = 1
    THEN << Base64Char(b[1] \div 4), Base64Char((b[1] % 4) * 16), "=", "=" >>
    ELSE IF Len(b) = 2
    THEN LET v == (b[1] * 256 + b[2]) * 4
         IN  << Base64Char(v \div 4096), Base64Char((v \div 64) % 64),
                Base64Char(v % 64), "=" >>
    ELSE LET v == b[1] * 65536 + b[2] * 256 + b[3]
         IN  << Base64Char(v \div 262144), Base64Char((v \div 4096) % 64),
                Base64Char((v \div 64) % 64), Base64Char(v % 64) >>
             \o Base64Encode(SubSeq(b, 4, Len(b)))

IsBase64Char(c) == \E k \in 1..64 : Base64Alphabet[k] = c

Base64Value(c) == (CHOOSE k \in 1..64 : Base64Alphabet[k] = c) - 1

RECURSIVE Base64Decode(_)
\* four characters give three bytes; padding is accepted in the last group
\* only; anything else is a CorruptInputError
Base64Decode(txt) ==
    IF Len(txt) = 0 THEN [ok |-> TRUE, val |-> << >>]
    ELSE IF Len(txt) < 4 THEN [ok |-> FALSE, val |-> << >>]
    ELSE LET c1 == txt[1]
             c2 == txt[2]
             c3 == txt[3]
             c4 == txt[4]
             last == (Len(txt) = 4)
         IN  IF ~IsBase64Char(c1) \/ ~IsBase64Char(c2)
             THEN [ok |-> FALSE, val |-> << >>]
             ELSE IF c3 = "=" /\ c4 = "="
             THEN IF last
                  THEN [ok |-> TRUE,
                        val |-> << Base64Value(c1) * 4 + Base64Value(c2) \div 16 >>]
                  ELSE [ok |-> FALSE, val |-> << >>]
             ELSE IF ~IsBase64Char(c3) THEN [ok |-> FALSE, val |-> << >>]
             ELSE IF c4 = "="
             THEN IF last
                  THEN LET v == Base64Value(c1) * 4096 + Base64Value(c2) * 64
                                  + Base64Value(c3)
                       IN  [ok |-> TRUE,
                            val |-> << v \div 1024, (v \div 4) % 256 >>]
                  ELSE [ok |-> FALSE, val |-> << >>]
             ELSE IF ~IsBase64Char(c4) THEN [ok |-> FALSE, val |-> << >>]
             ELSE LET v == Base64Value(c1) * 262144 + Base64Value(c2) * 4096
                             + Base64Value(c3) * 64 + Base64Value(c4)
                      rest == Base64Decode(SubSeq(txt, 5, Len(txt)))
                  IN  [ok |-> rest.ok,
                       val |-> << v \div 65536, (v \div 256) % 256, v % 256 >>
                                 \o rest.val]

\* ---- the environment
\* os.Getenv(key) in a process whose environment is e: the value of the
\* variable, "" when it is not there
Getenv(e, key) ==
    IF \E k \in 1..Len(e) : e[k].key = key
    THEN e[CHOOSE k \in 1..Len(e) : e[k].key = key].val
    ELSE << >>

\* start without b64.Close(): the base64 encoder never flushes the bytes
\* left over after the last full group of three.
StartEnvNoClose(r) ==
    LET b == GobEncode(r)
    IN  << [key |-> "_EXEC_REQ",
            val |-> Base64Encode(SubSeq(b, 1, Len(b) - (Len(b) % 3)))] >>

\* cmd.Env of execReq.start (instance.go:204-212): the request, gob-encoded
\* and base64-encoded, as the only variable
StartEnv(r) == << [key |-> "_EXEC_REQ", val |-> Base64Encode(GobEncode(r))] >>

\* the decoding of maybeExec (instance.go:224-225)
DecodeReq(data) ==
    LET b == Base64Decode(data)
    IN  IF ~b.ok THEN [ok |-> FALSE, val |-> ZeroReq] ELSE GobDecode(b.val)

\* ---- the launcher and the re-invoked process
\* func (r *execReq) start(out io.Writer): cmd.Env is set and cmd.Start either
\* spawns os.Args[0] with that environment or fails
BridgeStart ==
    /\ bridgePc = "launcher"
    /\ \E o \in StartOutcomes :
         IF o = "ok"
         THEN /\ bridgeEnv' = StartEnv(bridgeReq)
              /\ bridgePc' = "main"
         ELSE /\ bridgePc' = "start_failed"
              /\ UNCHANGED bridgeEnv
    /\ UNCHANGED <<mainVars, lifecycleVars, bridgeParent, bridgeReq, bridgeDecoded, bridgeTrace, bridgeImage>>

\* maybeExec, instance.go:219-227, the first statement of main
\* (runner.go:19, 143): return when the variable reads "", else decode it or
\* die
maybeExecDecode ==
    /\ bridgePc = "main"
    /\ LET data == Getenv(bridgeEnv, "_EXEC_REQ")
           d    == DecodeReq(data)
       IN  IF data = << >>
           THEN bridgePc' = "app" /\ UNCHANGED bridgeDecoded
           ELSE IF d.ok
           THEN bridgePc' = "setgid" /\ bridgeDecoded' = d.val
           ELSE bridgePc' = "fatal" /\ UNCHANGED bridgeDecoded
    /\ UNCHANGED <<mainVars, lifecycleVars, bridgeParent, bridgeReq, bridgeEnv, bridgeTrace, bridgeImage>>

\* maybeExec with the error of syscall.Setgid dropped.
maybeExecSetgidIgnoreErr ==
    /\ bridgePc = "setgid"
    /\ IF bridgeDecoded.Gid > 0
       THEN \E ok \in BOOLEAN :
              /\ bridgeTrace' = Append(bridgeTrace,
                     [call |-> "setgid", id |-> bridgeDecoded.Gid, ok |-> ok])
              /\ bridgePc' = "setuid"
       ELSE bridgePc' = "setuid" /\ UNCHANGED bridgeTrace
    /\ UNCHANGED <<mainVars, lifecycleVars, bridgeParent, bridgeReq, bridgeEnv, bridgeDecoded,
                   bridgeImage>>

\* maybeExec, instance.go:228-232
maybeExecSetgid ==
    /\ bridgePc = "setgid"
    /\ IF bridgeDecoded.Gid > 0
       THEN \E ok \in BOOLEAN :
              /\ bridgeTrace' = Append(bridgeTrace,
                     [call |-> "setgid", id |-> bridgeDecoded.Gid, ok |-> ok])
              /\ bridgePc' = IF ok THEN "setuid" ELSE "fatal"
       ELSE bridgePc' = "setuid" /\ UNCHANGED bridgeTrace
    /\ UNCHANGED <<mainVars, lifecycleVars, bridgeParent, bridgeReq, bridgeEnv, bridgeDecoded, bridgeImage>>

\* maybeExec with the guard of the setuid call written req.Uid >= 0.
maybeExecSetuidNonNeg ==
    /\ bridgePc = "setuid"
    /\ IF bridgeDecoded.Uid >= 0
       THEN \E ok \in BOOLEAN :
              /\ bridgeTrace' = Append(bridgeTrace,
                     [call |-> "setuid", id |-> bridgeDecoded.Uid, ok |-> ok])
              /\ bridgePc' = IF ok THEN "chdir" ELSE "fatal"
       ELSE bridgePc' = "chdir" /\ UNCHANGED bridgeTrace
    /\ UNCHANGED <<mainVars, lifecycleVars, bridgeParent, bridgeReq, bridgeEnv, bridgeDecoded,
                   bridgeImage>>

\* maybeExec, instance.go:233-237
maybeExecSetuid ==
    /\ bridgePc = "setuid"
    /\ IF bridgeDecoded.Uid > 0
       THEN \E ok \in BOOLEAN :
              /\ bridgeTrace' = Append(bridgeTrace,
                     [call |-> "setuid", id |-> bridgeDecoded.Uid, ok |-> ok])
              /\ bridgePc' = IF ok THEN "chdir" ELSE "fatal"
       ELSE bridgePc' = "chdir" /\ UNCHANGED bridgeTrace
    /\ UNCHANGED <<mainVars, lifecycleVars, bridgeParent, bridgeReq, bridgeEnv, bridgeDecoded, bridgeImage>>

\* maybeExec, instance.go:238-242
maybeExecChdir ==
    /\ bridgePc = "chdir"
    /\ IF bridgeDecoded.Dir # << >>
       THEN \E ok \in BOOLEAN :
              /\ bridgeTrace' = Append(bridgeTrace,
                     [call |-> "chdir", id |-> 0, ok |-> ok])
              /\ bridgePc' = IF ok THEN "exec" ELSE "fatal"
       ELSE bridgePc' = "exec" /\ UNCHANGED bridgeTrace
    /\ UNCHANGED <<mainVars, lifecycleVars, bridgeParent, bridgeReq, bridgeEnv, bridgeDecoded, bridgeImage>>

NoImage == [replaced |-> FALSE, Path |-> << >>, Argv |-> << >>, Env |-> << >>]

\* the name of the signal variable, and of HOME, as bytes
EnvKeyBytes(key) ==
    IF key = "_EXEC_REQ" THEN <<95, 69, 88, 69, 67, 95, 82, 69, 81>>
    ELSE <<72, 79, 77, 69>>

\* maybeExec calling syscall.Exec(req.Path, req.Argv, os.Environ()): the
\* target inherits the environment of the bridge process.
maybeExecExecEnviron ==
    /\ bridgePc = "exec"
    /\ \E ok \in BOOLEAN :
         /\ bridgeTrace' = Append(bridgeTrace, [call |-> "exec", id |-> 0, ok |-> ok])
         /\ bridgePc' = IF ok THEN "replaced" ELSE "fatal"
         /\ bridgeImage' = IF ok
                           THEN [replaced |-> TRUE, Path |-> bridgeDecoded.Path,
                                 Argv |-> bridgeDecoded.Argv.elems,
                                 Env |-> [k \in 1..Len(bridgeEnv) |->
                                            EnvKeyBytes(bridgeEnv[k].key) \o <<61>>
                                              \o bridgeEnv[k].val]]
                           ELSE bridgeImage
    /\ UNCHANGED <<mainVars, lifecycleVars, bridgeParent, bridgeReq, bridgeEnv,
                   bridgeDecoded>>

\* maybeExec with the error of syscall.Exec logged instead of fatal: the
\* function returns to main.
maybeExecExecFallThrough ==
    /\ bridgePc = "exec"
    /\ \E ok \in BOOLEAN :
         /\ bridgeTrace' = Append(bridgeTrace, [call |-> "exec", id |-> 0, ok |-> ok])
         /\ bridgePc' = IF ok THEN "replaced" ELSE "app"
         /\ bridgeImage' = IF ok
                           THEN [replaced |-> TRUE, Path |-> bridgeDecoded.Path,
                                 Argv |-> bridgeDecoded.Argv.elems,
                                 Env |-> bridgeDecoded.Env.elems]
                           ELSE bridgeImage
    /\ UNCHANGED <<mainVars, lifecycleVars, bridgeParent, bridgeReq, bridgeEnv, bridgeDecoded>>

\* maybeExec, instance.go:243-246: syscall.Exec replaces the image and does
\* not return, or returns an error and log.Fatalf ends the process
maybeExecExec ==
    /\ bridgePc = "exec"
    /\ \E ok \in BOOLEAN :
         /\ bridgeTrace' = Append(bridgeTrace, [call |-> "exec", id |-> 0, ok |-> ok])
         /\ bridgePc' = IF ok THEN "replaced" ELSE "fatal"
         /\ bridgeImage' = IF ok
                           THEN [replaced |-> TRUE, Path |-> bridgeDecoded.Path,
                                 Argv |-> bridgeDecoded.Argv.elems,
                                 Env |-> bridgeDecoded.Env.elems]
                           ELSE bridgeImage
    /\ UNCHANGED <<mainVars, lifecycleVars, bridgeParent, bridgeReq, bridgeEnv, bridgeDecoded>>

\* ---- the requests and environments the bridge is run on
ReqUids == {-1, 0, 1000}
ReqGids == {-1, 0, 1000}
ReqPaths == { << >>, <<47, 108>> }
ReqArgvs ==
    { NilSlice, Slice(<< >>), Slice(<< <<108>> >>),
      Slice(<< <<108>>, << >>, <<45, 97, 61, 98>> >>) }
ReqEnvs == { NilSlice, Slice(<< <<72, 79, 77, 69, 61, 47>> >>) }
ReqDirs == { << >>, <<47, 100>> }

Requests ==
    [Uid : ReqUids, Gid : ReqGids, Path : ReqPaths, Argv : ReqArgvs,
     Env : ReqEnvs, Dir : ReqDirs]

\* A request whose encoding is cut short below.
SampleReq ==
    [Uid |-> 1000, Gid |-> 1000, Path |-> <<47, 108>>,
     Argv |-> Slice(<< <<108>> >>), Env |-> NilSlice, Dir |-> << >>]

\* Environments of a process that execReq.start did not spawn: the variable
\* absent, another variable only, the variable set to "", and the variable
\* set to text that is not an encoded request.
ForeignEnvs ==
    { << >>,
      << [key |-> "HOME", val |-> <<"/">>] >>,
      << [key |-> "_EXEC_REQ", val |-> << >>] >>,
      << [key |-> "_EXEC_REQ", val |-> <<"A">>] >>,
      << [key |-> "_EXEC_REQ", val |-> <<"A", "A", "A", "A">>] >>,
      << [key |-> "_EXEC_REQ", val |-> <<"!", "!", "!", "!">>] >>,
      << [key |-> "_EXEC_REQ",
          val |-> SubSeq(Base64Encode(GobEncode(SampleReq)), 1, 8)] >> }

LifecycleIdle ==
    /\ backend = "uml"
    /\ nextID = 0
    /\ callers = [g \in Callers |-> [pc |-> "idle", id |-> 0, c |-> NoConfig,
                                     rets |-> << >>]]
    /\ inst = << >>
    /\ tmp = << >>
    /\ opCount = 0
    /\ faults = 0
    /\ panicked = FALSE

\* a nil error of the dial loop; the k-th dial's error is DialError(k, d)
NilError == [attempt |-> 0, took |-> 0]

\* the attempt loop before attempts.Run is called
NoDial ==
    [count |-> 0, now |-> 0, last |-> 0, end |-> 0, force |-> FALSE,
     err |-> NilError, sc |-> "nil", returned |-> FALSE, ret |-> NilError]

\* main is not run: the instances are called directly
MainIdle ==
    /\ mainPc = "off"
    /\ mainI = 0
    /\ mainGuest = FALSE
    /\ mainDial = NoDial

BridgeIdle ==
    /\ bridgeParent = "other"
    /\ bridgeReq = ZeroReq
    /\ bridgeEnv = << >>
    /\ bridgePc = "idle"
    /\ bridgeDecoded = ZeroReq
    /\ bridgeTrace = << >>
    /\ bridgeImage = NoImage

InitBridge ==
    /\ LifecycleIdle
    /\ MainIdle
    /\ bridgeDecoded = ZeroReq
    /\ bridgeTrace = << >>
    /\ bridgeImage = NoImage
    /\ \/ /\ bridgeParent = "start"
          /\ bridgePc = "launcher"
          /\ bridgeReq \in Requests
          /\ bridgeEnv = << >>
       \/ /\ bridgeParent = "other"
          /\ bridgePc = "main"
          /\ bridgeReq = ZeroReq
          /\ bridgeEnv \in ForeignEnvs

NextBridge ==
    \/ BridgeStart
    \/ maybeExecDecode
    \/ maybeExecSetgid
    \/ maybeExecSetuid
    \/ maybeExecChdir
    \/ maybeExecExec

\* The exec bridge: a launcher calling start on a request, and the process
\* it spawns (or a process someone else spawned) running main.
SpecBridge == InitBridge /\ [][NextBridge]_vars

\* ========================================================= the orchestrator
\* main of runner.go, for the UML backend (lines 18-93) and for the QEMU
\* backend (lines 142-225), one action per call it makes.  The build instance
\* is the first one created (id 0), the workers follow.

\* The goroutine of main.
Main == 1

\* instances := make([]Instance, 5); for i := 0; i < 5; i++
NumWorkers == 5

\* var attempts = attempt.Strategy{Min: 5, Total: 5 * time.Minute,
\* Delay: time.Second}, in seconds
AttemptsMin == 5
AttemptsTotal == 300
AttemptsDelay == 1

\* how long one ssh.Dial to an unreachable or booting guest can take, in
\* seconds: an immediate "no route to host" or "connection refused", or the
\* connect timeout of the kernel
DialDurations == {0, 127}

Build == 0

\* the config main passes for the build instance (runner.go:43-52, 169-178)
BuildConfig ==
    IF backend = "uml"
    THEN [Path |-> <<"linux">>, User |-> 1000, Group |-> 1000,
          Memory |-> <<"512MB">>,
          Drives |-> << UMLDrive(<<"rootfs.img">>, EmptyString, TRUE),
                        UMLDrive(<<"docker.img">>, EmptyString, FALSE) >>,
          Args |-> << >>, Out |-> "nil"]
    ELSE [Path |-> <<"vmlinuz">>, User |-> 1000, Group |-> 1000,
          Memory |-> <<"512">>,
          Drives |-> << VMDrive(<<"hda">>, <<"rootfs.img">>, TRUE),
                        VMDrive(<<"hdb">>, <<"docker.img">>, FALSE) >>,
          Args |-> << >>, Out |-> "nil"]

\* the config main passes for a worker instance (runner.go:68-77, 201-209)
WorkerConfig ==
    IF backend = "uml"
    THEN [Path |-> <<"linux">>, User |-> 1000, Group |-> 1000,
          Memory |-> <<"512MB">>,
          Drives |-> << UMLDrive(<<"rootfs.img">>, EmptyString, TRUE),
                        UMLDrive(<<"docker.img">>, EmptyString, TRUE) >>,
          Args |-> << >>, Out |-> "nil"]
    ELSE [Path |-> EmptyString, User |-> 1000, Group |-> 1000,
          Memory |-> <<"512MB">>,
          Drives |-> << VMDrive(<<"hda">>, <<"rootfs.img">>, TRUE),
                        VMDrive(<<"hdb">>, <<"docker.img">>, TRUE) >>,
          Args |-> << >>, Out |-> "nil"]

\* the process has ended: return from main or os.Exit(0), log.Fatal, a panic
MainEnded == mainPc \in {"exit0", "exit1", "panic"}

\* what a call of Wait or Kill did to instance u0, r being what it returned:
\* the entry of the instance's history
CallHist(op, u0, r) ==
    [op |-> op, err |-> r.err, panic |-> r.panic,
     wicErr |-> FALSE, spawned |-> FALSE,
     closes |-> r.u.tap.closeCalls - u0.tap.closeCalls,
     released |-> r.u.tap.closeCalls > 0,
     made |-> 0, leaked |-> {}]

\* user.Lookup, initNetworking and createFS (runner.go:24-39, 148-166): each
\* failure is fatal
MainSetup ==
    /\ mainPc = "setup"
    /\ \E ok \in BOOLEAN : mainPc' = IF ok THEN "new_build" ELSE "exit1"
    /\ UNCHANGED <<lifecycleVars, bridgeVars, mainI, mainGuest, mainDial>>

\* um.NewInstance(c) called by main, which is the only goroutine: the id is
\* drawn and the instance built; ok says whether no error was returned
MainNewInstance(c, o) ==
    /\ (o = "log_fail") => (c.Out = "nil")
    /\ nextID' = AtomicAddUint64(nextID, 1)
    /\ inst' = IF o = "log_fail" THEN inst
               ELSE (nextID :> NewInstanceRecord(c, nextID, o, Main)) @@ inst
    /\ tmp' = IF o = "log_fail" THEN tmp ELSE (nextID :> << >>) @@ tmp

\* build, err := um.NewInstance(...); if err != nil { log.Fatal(err) }
MainNewBuild ==
    /\ mainPc = "new_build"
    /\ \E o \in NewInstanceOutcomes :
         /\ MainNewInstance(BuildConfig, o)
         /\ mainPc' = IF o = "ok" THEN "build_start" ELSE "exit1"
    /\ UNCHANGED <<bridgeVars, backend, callers, opCount, faults, panicked,
                   mainI, mainGuest, mainDial>>

\* s.Start() of the attempt package: the first attempt is forced, the budget
\* ends Total after now.  The clock of the loop starts at 0.
AttemptStart ==
    [count |-> 0, now |-> 0, last |-> 0, end |-> AttemptsTotal, force |-> TRUE,
     err |-> NilError, sc |-> "nil", returned |-> FALSE, ret |-> NilError]

\* build.Start() with the build going on to run (UML: to build.Wait): main,
\* with the step after a successful Start left out.
MainStartBuildNoWait ==
    /\ mainPc = "build_start"
    /\ \E o \in StartInputs(inst[Build]) :
         /\ inst' = [inst EXCEPT ![Build] =
                        Called(Start(inst[Build], tmp[Build], o),
                               StartHist(inst[Build], tmp[Build],
                                         Start(inst[Build], tmp[Build], o)))]
         /\ tmp' = [tmp EXCEPT ![Build] = Start(inst[Build], tmp[Build], o).tmp]
         /\ mainPc' = IF Start(inst[Build], tmp[Build], o).err THEN "exit1"
                      ELSE IF backend = "uml" THEN "workers" ELSE "dial"
    /\ mainDial' = IF backend = "vm" THEN AttemptStart ELSE mainDial
    /\ UNCHANGED <<bridgeVars, backend, nextID, callers, opCount, faults, panicked,
                   mainI, mainGuest>>

\* if err := build.Start(); err != nil { log.Fatalf(...) } (runner.go:56-58,
\* 183-185); then build.Wait() for UML, buildFlynn(build) for QEMU
MainStartBuild ==
    /\ mainPc = "build_start"
    /\ \E o \in StartInputs(inst[Build]) :
         /\ inst' = [inst EXCEPT ![Build] =
                        Called(Start(inst[Build], tmp[Build], o),
                               StartHist(inst[Build], tmp[Build],
                                         Start(inst[Build], tmp[Build], o)))]
         /\ tmp' = [tmp EXCEPT ![Build] = Start(inst[Build], tmp[Build], o).tmp]
         /\ mainPc' = IF Start(inst[Build], tmp[Build], o).err THEN "exit1"
                      ELSE IF backend = "uml" THEN "build_wait" ELSE "dial"
    /\ mainDial' = IF backend = "vm" THEN AttemptStart ELSE mainDial
    /\ UNCHANGED <<bridgeVars, backend, nextID, callers, opCount, faults, panicked,
                   mainI, mainGuest>>

\* the instance i and its directories after Wait or Kill returned r
MainCalled(i, op, r) ==
    /\ inst' = [inst EXCEPT ![i] = Called(r, CallHist(op, inst[i], r))]
    /\ tmp' = [tmp EXCEPT ![i] = r.tmp]

\* if err := build.Wait(); err != nil { log.Fatalf(...) } (runner.go:62-64)
MainWaitBuild ==
    /\ mainPc = "build_wait"
    /\ \E o \in WaitOutcomes :
         /\ MainCalled(Build, "Wait", Wait(inst[Build], tmp[Build], o))
         /\ mainPc' = IF Wait(inst[Build], tmp[Build], o).err THEN "exit1"
                      ELSE "workers"
    /\ UNCHANGED <<bridgeVars, backend, nextID, callers, opCount, faults, panicked,
                   mainI, mainGuest, mainDial>>

\* one pass of the loop of runner.go:66-82 (201-214): inst, err :=
\* um.NewInstance(...); an error is fatal; instances[i] = inst
MainNewWorker ==
    /\ mainPc = "workers"
    /\ \E o \in NewInstanceOutcomes :
         /\ MainNewInstance(WorkerConfig, o)
         /\ mainPc' = IF o # "ok" THEN "exit1"
                      ELSE IF mainI + 1 < NumWorkers THEN "workers"
                      ELSE "teardown"
         /\ mainI' = IF o = "ok" /\ mainI + 1 < NumWorkers THEN mainI + 1 ELSE 0
    /\ UNCHANGED <<bridgeVars, backend, callers, opCount, faults, panicked,
                   mainGuest, mainDial>>

\* the instance instances[i] of the worker loops
Worker(i) == Build + 1 + i

\* one pass of the loop of runner.go:88-92 (220-224): inst.Kill(); an error
\* is printed and the loop goes on; a panic ends the process
MainKillWorker ==
    /\ mainPc = "teardown"
    /\ MainCalled(Worker(mainI), "Kill", Kill(inst[Worker(mainI)], tmp[Worker(mainI)]))
    /\ panicked' = Kill(inst[Worker(mainI)], tmp[Worker(mainI)]).panic
    /\ mainPc' = IF Kill(inst[Worker(mainI)], tmp[Worker(mainI)]).panic THEN "panic"
                 ELSE IF mainI + 1 < NumWorkers THEN "teardown"
                 ELSE "exit0"
    /\ mainI' = mainI + 1
    /\ UNCHANGED <<bridgeVars, backend, nextID, callers, opCount, faults,
                   mainGuest, mainDial>>

\* a.nextSleep(now) of the attempt package: what is left of Delay since the
\* last attempt began
AttemptSleep(a) ==
    IF AttemptsDelay - (a.now - a.last) < 0 THEN 0
    ELSE AttemptsDelay - (a.now - a.last)

\* a.Next() of the attempt package: whether another attempt is made, after
\* sleeping what is left of Delay since the last one.  The loop stops when
\* the budget would be over after the sleep and Min attempts were made.
AttemptNext(a) ==
    IF /\ ~a.force
       /\ ~(a.now + AttemptSleep(a) < a.end)
       /\ AttemptsMin <= a.count
    THEN [more |-> FALSE, a |-> a]
    ELSE [more |-> TRUE,
          a |-> [a EXCEPT !.force = FALSE,
                          !.count = @ + 1,
                          !.now = IF a.count > 0 THEN @ + AttemptSleep(a) ELSE @,
                          !.last = IF a.count > 0 THEN a.now + AttemptSleep(a)
                                   ELSE a.now]]

\* the error of the k-th ssh.Dial, which took d seconds
DialError(k, d) == [attempt |-> k, took |-> d]

\* the function passed to attempts.Run with the result of DialSSH assigned to
\* new variables (sc, err := inst.DialSSH()): the named result stays nil.
DialClosureShadowed(a, ok, d) ==
    [a EXCEPT !.now = @ + d, !.err = NilError]

\* the function passed to attempts.Run (runner.go:250-254), on the state of
\* the loop: sc, err = inst.DialSSH(); return, err being the named result.
\* The dial took d seconds and ok says whether it got a client.
DialClosure(a, ok, d) ==
    [a EXCEPT !.now = @ + d,
              !.sc = IF ok THEN "client" ELSE "nil",
              !.err = IF ok THEN NilError ELSE DialError(a.count, d)]

\* buildFlynn, runner.go:249-257: one turn of attempts.Run: a.Next(), then
\* the function; Run returns nil at the first nil error, and the last error
\* when a.Next() says no.  buildFlynn returns that error.
buildFlynnDial ==
    /\ mainPc = "dial"
    /\ IF AttemptNext(mainDial).more
       THEN \E d \in DialDurations :
              \E ok \in (IF mainGuest THEN BOOLEAN ELSE {FALSE}) :
                /\ mainDial' =
                     [DialClosure(AttemptNext(mainDial).a, ok, d)
                        EXCEPT !.returned =
                                 (DialClosure(AttemptNext(mainDial).a, ok, d).err
                                    = NilError)]
                /\ mainPc' = IF DialClosure(AttemptNext(mainDial).a, ok, d).err
                                = NilError
                             THEN "session" ELSE "dial"
       ELSE /\ mainDial' = [mainDial EXCEPT !.returned = TRUE, !.ret = mainDial.err]
            /\ mainPc' = "kill_failed"
    /\ UNCHANGED <<lifecycleVars, bridgeVars, mainI, mainGuest>>

\* buildFlynn, runner.go:258-267: defer sc.Close(); sess, err :=
\* sc.NewSession(), whose error is not looked at; sess.Stdin = buildScript is
\* a nil pointer dereference when sc is nil or NewSession failed; sess.Run
buildFlynnRun ==
    /\ mainPc = "session"
    /\ \E o \in {"ok", "newsession_fail", "run_fail"} :
         /\ (mainDial.sc = "nil") => (o = "newsession_fail")
         /\ mainPc' = CASE o = "ok" -> "kill_build"
                        [] o = "run_fail" -> "kill_failed"
                        [] o = "newsession_fail" -> "panic"
         /\ panicked' = (o = "newsession_fail")
    /\ UNCHANGED <<bridgeVars, backend, nextID, callers, inst, tmp, opCount, faults,
                   mainI, mainGuest, mainDial>>

\* if err := buildFlynn(build); err != nil { build.Kill(); log.Fatal(err) }
\* (runner.go:188-191)
MainKillFailed ==
    /\ mainPc = "kill_failed"
    /\ MainCalled(Build, "Kill", Kill(inst[Build], tmp[Build]))
    /\ panicked' = Kill(inst[Build], tmp[Build]).panic
    /\ mainPc' = IF Kill(inst[Build], tmp[Build]).panic THEN "panic" ELSE "exit1"
    /\ UNCHANGED <<bridgeVars, backend, nextID, callers, opCount, faults,
                   mainI, mainGuest, mainDial>>

\* if err := build.Kill(); err != nil { log.Fatalf(...) }; os.Exit(0)
\* (runner.go:193-197)
MainKillBuild ==
    /\ mainPc = "kill_build"
    /\ MainCalled(Build, "Kill", Kill(inst[Build], tmp[Build]))
    /\ panicked' = Kill(inst[Build], tmp[Build]).panic
    /\ mainPc' = IF Kill(inst[Build], tmp[Build]).panic THEN "panic"
                 ELSE IF Kill(inst[Build], tmp[Build]).err THEN "exit1"
                 ELSE "exit0"
    /\ UNCHANGED <<bridgeVars, backend, nextID, callers, opCount, faults,
                   mainI, mainGuest, mainDial>>

\* main starts; whether the build guest ever answers is the world's choice
InitMain ==
    /\ LifecycleInit
    /\ BridgeIdle
    /\ mainPc = "setup"
    /\ mainI = 0
    /\ mainGuest \in BOOLEAN
    /\ mainDial = NoDial

NextMain ==
    \/ MainSetup
    \/ MainNewBuild
    \/ MainStartBuild
    \/ MainWaitBuild
    \/ MainNewWorker
    \/ MainKillWorker
    \/ buildFlynnDial
    \/ buildFlynnRun
    \/ MainKillFailed
    \/ MainKillBuild

\* main of runner.go on either backend
SpecMain == InitMain /\ [][NextMain]_vars

\* main goes on as long as it has a statement to run
SpecMainFair == SpecMain /\ WF_vars(NextMain)

\* ------------------------------------------------------ the specifications
Init == LifecycleInit /\ BridgeIdle /\ MainIdle

\* The orchestrator: one goroutine creating instances and calling them.
Next ==
    \/ NewInstanceAdd(Main)
    \/ NewInstanceFinish(Main)
    \/ \E i \in 0..(MaxInstances - 1) : CallStart(i)
    \/ \E i \in 0..(MaxInstances - 1) : CallWait(i)
    \/ \E i \in 0..(MaxInstances - 1) : CallKill(i)

Spec == Init /\ [][Next]_vars

\* Start calls made in the specification of the overlays
MaxStarts == 2

\* Start on instance i, as long as fewer than MaxStarts calls were made
OverlayStart(i) ==
    /\ opCount < MaxStarts
    /\ CallStart(i)

NextOverlay ==
    \/ NewInstanceAdd(Main)
    \/ NewInstanceFinish(Main)
    \/ \E i \in 0..(MaxInstances - 1) : OverlayStart(i)

\* The overlays: instances are created and started, again and again, and
\* every Start makes the overlays of its drives.
SpecOverlay == Init /\ [][NextOverlay]_vars

NextManager ==
    \/ \E g \in Callers : NewInstanceAdd(g)
    \/ \E g \in Callers : NewInstanceFinish(g)

\* The manager under concurrent NewInstance calls.
SpecManager == Init /\ [][NextManager]_vars

\* ================================================================ claims
\* The calls made on instance i so far, oldest first.
Hist(i) == inst[i].hist

\* Call k on instance i ran cleanup: Wait and Kill always do, Start does when
\* it returns an error.
RanCleanup(i, k) ==
    \/ Hist(i)[k].op \in {"Wait", "Kill"}
    \/ Hist(i)[k].op = "Start" /\ Hist(i)[k].err

\* C1: over any sequence of terminal calls on an instance (Wait then Kill,
\* Kill then Wait, a failed Start then Wait or Kill) the network endpoint is
\* released exactly once and every temporary path is deleted at most once: a
\* second cleanup pass releases nothing again.
C1_CleanupReleasesOnce ==
    \A i \in DOMAIN inst :
        /\ inst[i].tap.closeCalls <= 1
        /\ (\E k \in DOMAIN Hist(i) : RanCleanup(i, k)) => inst[i].tap.closeCalls = 1
        /\ \A n \in DOMAIN tmp[i] : tmp[i][n].removed <= 1
        /\ \A k \in DOMAIN Hist(i) :
             (\E j \in 1..(k - 1) : RanCleanup(i, j)) => Hist(i)[k].closes = 0

\* C2: NewInstance followed at once by Kill, Start never called, does not
\* panic and releases the endpoint NewInstance allocated.
C2_KillBeforeStartIsSafe ==
    \A i \in DOMAIN inst :
        (Len(Hist(i)) >= 1 /\ Hist(i)[1].op = "Kill")
            => (~Hist(i)[1].panic /\ Hist(i)[1].released)

\* C3: whenever Start returns an error, every temporary directory that Start
\* created is gone and the endpoint is released by the time it returns.
C3_FailedStartLeavesNothing ==
    \A i \in DOMAIN inst : \A k \in DOMAIN Hist(i) :
        (Hist(i)[k].op = "Start" /\ Hist(i)[k].err)
            => (Hist(i)[k].leaked = {} /\ Hist(i)[k].released)

\* C4: if writing the interface descriptor fails, Start returns an error and
\* spawns no hypervisor process through the exec bridge.
C4_DescriptorFailureFailsStart ==
    \A i \in DOMAIN inst : \A k \in DOMAIN Hist(i) :
        (Hist(i)[k].op = "Start" /\ Hist(i)[k].wicErr)
            => (Hist(i)[k].err /\ ~Hist(i)[k].spawned)

\* The NewInstance calls that have returned, as pairs of goroutine and call
\* number.
Returned == { gk \in Callers \X (1..MaxInstances) : gk[2] <= Len(callers[gk[1]].rets) }

Ret(gk) == callers[gk[1]].rets[gk[2]]

\* C5: under any interleaving of concurrent NewInstance calls no two calls
\* hand out the same id, and the ids one goroutine receives increase strictly
\* in call order.
C5_IdsUniqueAndIncreasing ==
    /\ \A a, b \in Returned : a # b => Ret(a).id # Ret(b).id
    /\ \A a, b \in Returned :
         (a[1] = b[1] /\ a[2] < b[2]) => Ret(a).id < Ret(b).id

\* Two goroutines are inside overlapping calls: one still holds the id it
\* drew while the other, having drawn a later id, has returned its instance.
C5_Witness ==
    \E g, h \in Callers :
        /\ g # h
        /\ callers[g].pc = "add"
        /\ Len(callers[h].rets) = 1
        /\ callers[h].rets[1].inst
        /\ callers[h].rets[1].id > callers[g].id

\* C6: when NewInstance returns an error (log file or endpoint allocation
\* failed) it returns no Instance.
C6_NoInstanceOnError ==
    \A gk \in Returned : Ret(gk).err => ~Ret(gk).inst

\* The process has decoded a request.
Decoded == bridgePc \in {"setgid", "setuid", "chdir", "exec", "replaced", "fatal"}
               /\ (bridgePc = "fatal" => bridgeTrace # << >>)

\* C7: what maybeExec decodes in the process that start spawned is the
\* request start encoded: the same uid, gid, path, argv element for element,
\* env and dir (and the decoding does not fail).
C7_RoundTrip ==
    (bridgeParent = "start" /\ bridgePc \notin {"launcher", "start_failed", "main"})
        => /\ Decoded
           /\ bridgeDecoded.Uid = bridgeReq.Uid
           /\ bridgeDecoded.Gid = bridgeReq.Gid
           /\ bridgeDecoded.Path = bridgeReq.Path
           /\ Len(bridgeDecoded.Argv.elems) = Len(bridgeReq.Argv.elems)
           /\ \A k \in 1..Len(bridgeReq.Argv.elems) :
                bridgeDecoded.Argv.elems[k] = bridgeReq.Argv.elems[k]
           /\ bridgeDecoded.Env.elems = bridgeReq.Env.elems
           /\ bridgeDecoded.Dir = bridgeReq.Dir

\* A request with a negative and a multi-byte id, an argv holding an empty
\* string, an env and a dir has been decoded.
C7_Witness ==
    /\ bridgeParent = "start"
    /\ bridgePc = "setgid"
    /\ bridgeReq.Uid = 1000
    /\ bridgeReq.Gid = -1
    /\ Len(bridgeReq.Argv.elems) = 3
    /\ bridgeReq.Argv.elems[2] = << >>
    /\ bridgeReq.Env.elems # << >>
    /\ bridgeReq.Dir # << >>
    /\ bridgeDecoded = [bridgeReq EXCEPT !.Uid = 1000]

CallRank(c) ==
    CASE c = "setgid" -> 1 [] c = "setuid" -> 2 [] c = "chdir" -> 3 [] c = "exec" -> 4

\* C8: in the bridge process setgid comes before setuid, both before chdir
\* and the final exec; a failed setgid or setuid is the last thing the
\* process does: it exits fatally and the target is never executed.
C8_DropOrderAndFatal ==
    /\ \A j, k \in DOMAIN bridgeTrace :
         j < k => CallRank(bridgeTrace[j].call) < CallRank(bridgeTrace[k].call)
    /\ \A k \in DOMAIN bridgeTrace :
         (bridgeTrace[k].call \in {"setgid", "setuid"} /\ ~bridgeTrace[k].ok)
            => /\ k = Len(bridgeTrace)
               /\ bridgePc = "fatal"
               /\ ~bridgeImage.replaced

\* setgid succeeded, setuid failed, and the process has ended.
C8_Witness ==
    /\ Len(bridgeTrace) = 2
    /\ bridgeTrace[1].call = "setgid" /\ bridgeTrace[1].ok
    /\ bridgeTrace[2].call = "setuid" /\ ~bridgeTrace[2].ok
    /\ bridgePc = "fatal"

\* C9: setgid is called only when Gid > 0 and setuid only when Uid > 0, with
\* that id; a request with Uid = 0 and Gid = 0 makes neither call and reaches
\* the exec.
C9_DropOnlyPositiveIds ==
    /\ \A k \in DOMAIN bridgeTrace :
         /\ bridgeTrace[k].call = "setgid"
              => (bridgeDecoded.Gid > 0 /\ bridgeTrace[k].id = bridgeDecoded.Gid)
         /\ bridgeTrace[k].call = "setuid"
              => (bridgeDecoded.Uid > 0 /\ bridgeTrace[k].id = bridgeDecoded.Uid)
    /\ (Decoded /\ bridgeDecoded.Uid = 0 /\ bridgeDecoded.Gid = 0)
         => /\ \A k \in DOMAIN bridgeTrace :
                 bridgeTrace[k].call \notin {"setgid", "setuid"}
            /\ bridgePc = "fatal" =>
                 bridgeTrace[Len(bridgeTrace)].call \in {"chdir", "exec"}

\* A request with Uid = 0 and Gid = 0 went straight to the exec.
C9_Witness ==
    /\ bridgeParent = "start"
    /\ bridgePc = "replaced"
    /\ bridgeDecoded.Uid = 0 /\ bridgeDecoded.Gid = 0
    /\ bridgeDecoded.Dir = << >>
    /\ Len(bridgeTrace) = 1
    /\ bridgeTrace[1].call = "exec"

\* The signal variable is in the environment of the process.
SignalPresent == \E k \in 1..Len(bridgeEnv) : bridgeEnv[k].key = "_EXEC_REQ"

\* C10, as stated: when the signal variable is absent maybeExec returns
\* without a privilege change, and when it is present maybeExec never returns
\* to the application logic.
C10_PresentNeverReturns ==
    /\ (bridgePc = "app") => (~SignalPresent /\ bridgeTrace = << >>)
    /\ (~SignalPresent /\ bridgePc \notin {"launcher", "start_failed"})
         => (bridgePc \in {"main", "app"} /\ bridgeTrace = << >>)

\* C10, amended: maybeExec returns to the application logic exactly when the
\* signal variable reads as the empty string (absent, or present and empty),
\* and then it has made no system call; with a non-empty value every path
\* ends in the image being replaced or in a fatal exit.
C10_NonEmptyNeverReturns ==
    /\ (bridgePc = "app")
         => (Getenv(bridgeEnv, "_EXEC_REQ") = << >> /\ bridgeTrace = << >>)
    /\ (Getenv(bridgeEnv, "_EXEC_REQ") = << >>
          /\ bridgePc \notin {"launcher", "start_failed"})
         => (bridgePc \in {"main", "app"} /\ bridgeTrace = << >>)
    /\ bridgeImage.replaced <=> (bridgePc = "replaced")

\* A process whose signal variable holds text that is no request has ended
\* in the fatal exit of the decoding.
C10_Witness ==
    /\ bridgeParent = "other"
    /\ Getenv(bridgeEnv, "_EXEC_REQ") # << >>
    /\ bridgePc = "fatal"
    /\ bridgeTrace = << >>

\* ------------------------------------------------------------------ C11
\* the build instance has been waited for or killed
BuildCompleted ==
    /\ Build \in DOMAIN inst
    /\ \E k \in 1..Len(Hist(Build)) : Hist(Build)[k].op \in {"Wait", "Kill"}

\* C11: in main, whenever a worker instance exists (has been created or
\* started), the build instance has been waited for or killed before, and on
\* the QEMU backend buildFlynn has returned before.
C11_WorkersAfterBuild ==
    (mainPc # "off") =>
        \A i \in DOMAIN inst :
            (i # Build) =>
                /\ BuildCompleted
                /\ (backend = "vm") => mainDial.returned

\* the worker loop has created its instances after the build was waited for
C11_Witness ==
    /\ mainPc = "teardown"
    /\ Worker(NumWorkers - 1) \in DOMAIN inst
    /\ BuildCompleted

\* ------------------------------------------------------------------ C12
\* C12: with a guest that can never be reached, the dial loop of buildFlynn
\* always ends; when attempts.Run has returned, at least Min attempts were
\* made, every attempt beyond Min began before the Total budget was over,
\* and the error returned is the error of the last dial.
C12_DialLoopTerminates ==
    /\ []((mainPc # "off" /\ ~mainGuest) =>
            /\ (mainDial.count > AttemptsMin) => (mainDial.last < mainDial.end)
            /\ mainDial.returned =>
                  /\ mainDial.count >= AttemptsMin
                  /\ mainDial.ret # NilError
                  /\ mainDial.ret.attempt = mainDial.count
                  /\ mainDial.ret = mainDial.err)
    /\ ((mainPc = "dial" /\ ~mainGuest)
          ~> (mainPc = "kill_failed" /\ mainDial.returned))

\* the loop gave up on an unreachable guest after the time budget, having
\* made more than Min attempts
C12_Witness ==
    /\ ~mainGuest
    /\ mainPc = "kill_failed"
    /\ mainDial.returned
    /\ mainDial.count > AttemptsMin
    /\ mainDial.now >= AttemptsTotal

\* ------------------------------------------------------------------ C13
\* the tempCOW calls that returned an overlay path: instance and position in
\* the instance's record of its tempCOW calls
Overlays ==
    { ik \in (DOMAIN inst) \X (1..(2 * MaxOps)) :
        /\ ik[2] <= Len(inst[ik[1]].cows)
        /\ ~inst[ik[1]].cows[ik[2]].err }

Overlay(ik) == inst[ik[1]].cows[ik[2]]

\* C13: every overlay path tempCOW returned differs from the base image of
\* its drive and from the overlay path of every other tempCOW call, of the
\* same Start, of another Start and of another instance.
C13_OverlayPathsUnique ==
    \A a \in Overlays :
        /\ Overlay(a).path # Overlay(a).base
        /\ \A b \in Overlays : (a # b) => (Overlay(a).path # Overlay(b).path)

\* two instances have overlays, and one of them has two
C13_Witness ==
    \E a, b, c \in Overlays :
        /\ a[1] # b[1]
        /\ a[1] = c[1] /\ a[2] # c[2]

\* ------------------------------------------------------------------ C14
\* C14: every directory a tempCOW call created, whether the call succeeded
\* or failed, is in the temp-file list of its instance for as long as it
\* exists, so that the instance's next cleanup deletes it.
C14_OverlayDirsRegistered ==
    \A i \in DOMAIN inst :
        \A k \in 1..Len(inst[i].cows) :
            \A n \in 1..Len(tmp[i]) :
                (/\ inst[i].cows[k].dir # EmptyString
                 /\ tmp[i][n].path = inst[i].cows[k].dir
                 /\ tmp[i][n].exists)
                => (\E f \in 1..Len(inst[i].tempFiles) :
                       inst[i].tempFiles[f] = inst[i].cows[k].dir)

\* ------------------------------------------------------------------ C15
\* the argv of the last execReq that Start of instance i built
Argv(i) == inst[i].cmd.req.Argv

\* the positions of argv that hold a "ubd<d>=..." parameter
UbdParams(argv, d) ==
    { k \in 1..Len(argv) :
        /\ Len(argv[k]) >= Len(Itoa(d)) + 2
        /\ SubSeq(argv[k], 1, Len(Itoa(d)) + 2) = <<"ubd">> \o Itoa(d) \o <<"=">> }

\* argv[k] is the parameter the claim gives for drive d of instance i
UbdParamOk(i, argv, k, d) ==
    LET drive == inst[i].Drives[d + 1]
    IN  CASE drive.TempCOW ->
               \E c \in 1..Len(inst[i].cows) :
                   /\ ~inst[i].cows[c].err
                   /\ argv[k] = <<"ubd">> \o Itoa(d) \o <<"=">>
                                   \o inst[i].cows[c].path \o <<",">> \o drive.FS
          [] ~drive.TempCOW /\ drive.COW # EmptyString ->
               argv[k] = <<"ubd">> \o Itoa(d) \o <<"=">> \o drive.COW
                           \o <<",">> \o drive.FS
          [] OTHER ->
               argv[k] = <<"ubd">> \o Itoa(d) \o <<"=">> \o drive.FS

\* C15: the argv that Start builds on the UML backend contains mem=<Memory>
\* when Memory is set, eth0=tuntap,<tap name>, and for every drive of index
\* d exactly one ubd<d>= parameter, ubd<d>=<overlay>,<base> for a drive with
\* an explicit or auto-created overlay and ubd<d>=<base> otherwise.
C15_UmlArgv ==
    \A i \in DOMAIN inst :
        (backend = "uml" /\ ~inst[i].cmd.isNil) =>
            /\ (inst[i].Memory # EmptyString) =>
                  (\E k \in 1..Len(Argv(i)) :
                      Argv(i)[k] = <<"mem=">> \o inst[i].Memory)
            /\ \E k \in 1..Len(Argv(i)) :
                  Argv(i)[k] = <<"eth0=tuntap,">> \o inst[i].tap.Name
            /\ \A d \in 0..(Len(inst[i].Drives) - 1) :
                  /\ Cardinality(UbdParams(Argv(i), d)) = 1
                  /\ \A k \in UbdParams(Argv(i), d) : UbdParamOk(i, Argv(i), k, d)

\* ------------------------------------------------------------------ C16
\* C16: once an instance has been waited for or killed, no later call spawns
\* a hypervisor process for it or leaves it with a running process.
C16_NoWayBackToRunning ==
    \A i \in DOMAIN inst :
        \A k \in 1..Len(Hist(i)) :
            (Hist(i)[k].op \in {"Wait", "Kill"}) =>
                /\ \A l \in (k + 1)..Len(Hist(i)) : ~Hist(i)[l].spawned
                /\ inst[i].cmd.Process # "running"

\* ------------------------------------------------------------------ C18
\* C18: in a tempCOW call of the QEMU backend in which creating the
\* directory or changing its ownership failed, an error was returned and
\* qemu-img was not run; qemu-img was run only in calls where both succeeded.
C18_ToolAfterDirAndChown ==
    \A i \in DOMAIN inst :
        \A k \in 1..Len(inst[i].cows) :
            (backend = "vm") =>
                /\ (inst[i].cows[k].out \in {"tempdir_fail", "chown_fail"}) =>
                      (inst[i].cows[k].err /\ ~inst[i].cows[k].tool)
                /\ inst[i].cows[k].tool =>
                      (inst[i].cows[k].out \in {"ok", "qemuimg_fail", "chownfile_fail"})

\* one tempCOW call stopped at the ownership change, another ran qemu-img
C18_Witness ==
    /\ backend = "vm"
    /\ \E i, j \in DOMAIN inst :
          /\ \E k \in 1..Len(inst[i].cows) : inst[i].cows[k].out = "chown_fail"
          /\ \E k \in 1..Len(inst[j].cows) : inst[j].cows[k].tool

\* ------------------------------------------------------------------ C17
\* Kill was called on worker w
WorkerKilled(w) ==
    /\ Worker(w) \in DOMAIN inst
    /\ \E k \in 1..Len(Hist(Worker(w))) : Hist(Worker(w))[k].op = "Kill"

\* C17: when main has ended after its teardown loop began, Kill has been
\* called on every worker instance.
C17_TeardownKillsAll ==
    (mainPc # "off" /\ MainEnded /\ WorkerKilled(0)) =>
        \A w \in 0..(NumWorkers - 1) : WorkerKilled(w)

\* ------------------------------------------------------------------ C19
\* Start of the build instance has spawned the hypervisor
BuildStarted ==
    /\ Build \in DOMAIN inst
    /\ \E k \in 1..Len(Hist(Build)) :
          Hist(Build)[k].op = "Start" /\ Hist(Build)[k].spawned

\* C19: on the QEMU backend, when main has ended after the build instance's
\* Start succeeded, Kill has been called on the build instance.
C19_BuildKilledBeforeExit ==
    (mainPc # "off" /\ backend = "vm" /\ MainEnded /\ BuildStarted) =>
        (\E k \in 1..Len(Hist(Build)) : Hist(Build)[k].op = "Kill")

\* ------------------------------------------------------------------ C20
\* the environment entry e sets the signal variable
SetsSignal(e) ==
    /\ Len(e) >= 10
    /\ SubSeq(e, 1, 10) = EnvKeyBytes("_EXEC_REQ") \o <<61>>

\* C20: the environment of the image that syscall.Exec put in place has no
\* entry for the signal variable and is the Env list of the request, and
\* the process that start spawned has the signal variable and nothing else
\* in its environment.
C20_TargetEnvIsRequestEnv ==
    /\ bridgeImage.replaced =>
          /\ \A k \in 1..Len(bridgeImage.Env) : ~SetsSignal(bridgeImage.Env[k])
          /\ bridgeImage.Env = bridgeDecoded.Env.elems
          /\ (bridgeParent = "start") => (bridgeImage.Env = bridgeReq.Env.elems)
    /\ (bridgeParent = "start"
          /\ bridgePc \in {"main", "setgid", "setuid", "chdir", "exec", "fatal"}) =>
          /\ Len(bridgeEnv) = 1
          /\ bridgeEnv[1].key = "_EXEC_REQ"

\* a request with a HOME entry has been executed
C20_Witness ==
    /\ bridgeParent = "start"
    /\ bridgeImage.replaced
    /\ Len(bridgeImage.Env) = 1
    /\ Len(bridgeEnv) = 1

====
